---------------------------- MODULE Spec2Model ----------------------------
(***************************************************************************)
(* Resistor colour-band reader: src/resit.py (findBands and its helpers,   *)
(* displayResults) and src/app.py (the /analyze handler that decodes the   *)
(* bands returned by findBands into a resistance).                         *)
(*                                                                         *)
(* OpenCV itself is not part of the repository.  What its calls return for *)
(* an image (the blurred/HSV planes, the foreground threshold, the         *)
(* contours of a mask, contourArea, boundingRect) is the program's input   *)
(* here: an image is its height and width together with the `scene` the    *)
(* library reports for it, a list of uniformly coloured blobs (one contour *)
(* each) and the list of contours of the closed edge/threshold mask.       *)
(* Everything the repository's own code does with those values is          *)
(* modelled step by step.                                                  *)
(*                                                                         *)
(* Python ints are unbounded, TLC's are 32 bit: a decoded resistance is    *)
(* kept as two limbs [hi, lo] base 10^5 (PyMul).  contourArea returns      *)
(* multiples of one half: areas are kept doubled (area2 = 2 * area).       *)
(***************************************************************************)
EXTENDS Integers, Naturals, Sequences, FiniteSets, TLC

VARIABLES
    img,        \* the input buffer: [h, w] (rows, columns)
    cfg,        \* Config: [max_dim, min_area, debug]
    scene,      \* what OpenCV reports for the image: [blobs, rois]
    pc,         \* position in the call
    proc,       \* _preprocess: [h, w, resize] of the processed image
    min_area,   \* findBands local min_area
    roi_mask,   \* _resistor_roi_mask result: [full, fill]
    idx,        \* index into Colour_Range of the colour loop
    bandpos,    \* findBands local bandpos
    img1,       \* debug overlay drawn on img1, and the windows shown
    bands,      \* value returned by findBands
    response,   \* what analyze returns: [error, bands, value_ohms]
    call,       \* 1 for the first call on the image, 2 for the repeated one
    first,      \* the first call's debug flag and response
    fn_in,      \* argument of a function applied on its own
    fn_out      \* its result

pipeVars == <<img, cfg, scene, pc, proc, min_area, roi_mask, idx, bandpos,
              img1, bands, response, call, first>>
vars == <<img, cfg, scene, pc, proc, min_area, roi_mask, idx, bandpos,
          img1, bands, response, call, first, fn_in, fn_out>>

-----------------------------------------------------------------------------
(* Python values *)

None == <<>>
Some(v) == <<v>>

Max(a, b) == IF a >= b THEN a ELSE b
Min(a, b) == IF a <= b THEN a ELSE b

DigitChar == <<"0", "1", "2", "3", "4", "5", "6", "7", "8", "9">>

\* str(n) for an int n >= 0: its decimal digits, most significant first
RECURSIVE PyStr(_)
PyStr(n) ==
    IF n < 10 THEN <<DigitChar[n + 1]>>
    ELSE PyStr(n \div 10) \o <<DigitChar[(n % 10) + 1]>>

CharVal(c) == CHOOSE d \in 0..9 : DigitChar[d + 1] = c

\* int(s) for a string of decimal digits; int("") raises ValueError
RECURSIVE PyIntDigits(_, _)
PyIntDigits(s, acc) ==
    IF s = <<>> THEN acc
    ELSE PyIntDigits(Tail(s), acc * 10 + CharVal(Head(s)))

PyInt(s) == IF s = <<>> THEN None ELSE Some(PyIntDigits(s, 0))

RECURSIVE Pow10(_)
Pow10(e) == IF e = 0 THEN 1 ELSE 10 * Pow10(e - 1)

Limb == 100000

\* a * b for 0 <= a < 10^4 and 0 <= b <= 10^9, exact, as [hi, lo] = hi * Limb + lo
PyMul(a, b) ==
    LET bh == b \div Limb
        bl == b % Limb
        low == a * bl
    IN  [hi |-> a * bh + (low \div Limb), lo |-> low % Limb]

\* s[:-1]
AllButLast(s) == IF s = <<>> THEN <<>> ELSE SubSeq(s, 1, Len(s) - 1)

-----------------------------------------------------------------------------
(* The colour taxonomy, resit.py lines 11-25 *)

Colour_Range == <<
    [lo |-> <<0, 0, 0>>,     hi |-> <<255, 255, 20>>,  name |-> "BLACK",  digit |-> 0, bgr |-> <<0, 0, 0>>],
    [lo |-> <<0, 90, 10>>,   hi |-> <<15, 250, 100>>,  name |-> "BROWN",  digit |-> 1, bgr |-> <<0, 51, 102>>],
    [lo |-> <<0, 30, 80>>,   hi |-> <<10, 255, 200>>,  name |-> "RED",    digit |-> 2, bgr |-> <<0, 0, 255>>],
    [lo |-> <<5, 150, 150>>, hi |-> <<15, 235, 250>>,  name |-> "ORANGE", digit |-> 3, bgr |-> <<0, 128, 255>>],
    [lo |-> <<50, 100, 100>>, hi |-> <<70, 255, 255>>, name |-> "YELLOW", digit |-> 4, bgr |-> <<0, 255, 255>>],
    [lo |-> <<45, 100, 50>>, hi |-> <<75, 255, 255>>,  name |-> "GREEN",  digit |-> 5, bgr |-> <<0, 255, 0>>],
    [lo |-> <<100, 150, 0>>, hi |-> <<140, 255, 255>>, name |-> "BLUE",   digit |-> 6, bgr |-> <<255, 0, 0>>],
    [lo |-> <<120, 40, 100>>, hi |-> <<140, 250, 220>>, name |-> "VIOLET", digit |-> 7, bgr |-> <<255, 0, 127>>],
    [lo |-> <<0, 0, 50>>,    hi |-> <<179, 50, 80>>,   name |-> "GRAY",   digit |-> 8, bgr |-> <<128, 128, 128>>],
    [lo |-> <<0, 0, 90>>,    hi |-> <<179, 15, 250>>,  name |-> "WHITE",  digit |-> 9, bgr |-> <<255, 255, 255>>] >>

Red_top_low == <<160, 30, 80>>
Red_top_high == <<179, 255, 200>>

\* a band tuple: lmp + tuple(clr[2:])
BandBad(x, y, clr) == [x |-> x, y |-> y, name |-> clr.name, digit |-> clr.lo[1], bgr |-> clr.bgr]
Band(x, y, clr) == [x |-> x, y |-> y, name |-> clr.name, digit |-> clr.digit, bgr |-> clr.bgr]

-----------------------------------------------------------------------------
(* Decoding: app.py analyze lines 58-78, resit.py displayResults *)

\* ''.join(str(b[3]) for b in bands[:-1])
RECURSIVE JoinDigits(_)
JoinDigits(bs) ==
    IF bs = <<>> THEN <<>> ELSE PyStr(Head(bs).digit) \o JoinDigits(Tail(bs))

DigitsPart(bs) == JoinDigits(AllButLast(bs))

MultiplierBad(bs) == Pow10(bs[1].digit)
Multiplier(bs) == Pow10(bs[Len(bs)].digit)

\* value_ohms of analyze: None unless 3, 4 or 5 bands (or int() raised)
ValueOhmsBad(bs) ==
    IF Len(bs) \in {2, 3, 4, 5}
    THEN LET base == PyInt(DigitsPart(bs))
         IN  IF base = None THEN None
             ELSE Some(PyMul(base[1], Multiplier(bs)))
    ELSE None
ValueOhms(bs) ==
    IF Len(bs) \in {3, 4, 5}
    THEN LET base == PyInt(DigitsPart(bs))
         IN  IF base = None THEN None
             ELSE Some(PyMul(base[1], Multiplier(bs)))
    ELSE None

\* band_list of analyze
RECURSIVE BandList(_)
BandList(bs) ==
    IF bs = <<>> THEN <<>>
    ELSE <<[x |-> Head(bs).x, y |-> Head(bs).y, color |-> Head(bs).name,
            digit |-> Head(bs).digit]>> \o BandList(Tail(bs))

\* what displayResults prints: the resistance, or nothing
RECURSIVE StrValue(_, _)
StrValue(bs, strvalue) ==
    IF bs = <<>> THEN strvalue
    ELSE StrValue(Tail(bs), strvalue \o PyStr(Head(bs).digit))

displayResults(sortedbands) ==
    IF Len(sortedbands) \in {3, 4, 5}
    THEN LET intvalue == PyInt(StrValue(AllButLast(sortedbands), <<>>))[1]
         IN  Some(PyMul(intvalue, Pow10(sortedbands[Len(sortedbands)].digit)))
    ELSE None

-----------------------------------------------------------------------------
(* Double arithmetic.  The code's float expressions are evaluated exactly  *)
(* (as rationals) and then corrected at the arguments, among those the     *)
(* model draws, where IEEE-754 double evaluation in Python differs from    *)
(* the exact value:                                                        *)
(*   int(0.0005 * 145 * 800) = 57      (exactly 58)                        *)
(*   0.001 * 35 * 100 = 3.5000000000000004   (exactly 3.5)                 *)
(*   int(49 * (2 / 49.0)) = 1, int(49 * (-1 / 49.0)) = 0                   *)
(* w / h > 0.40 and ar > 1.5 agree with the exact comparisons for all      *)
(* integer sides below 2^31.                                               *)

\* int(x) of the rational n / d, d > 0: truncation toward zero
TruncDiv(n, d) == IF n >= 0 THEN n \div d ELSE -((-n) \div d)

\* <<h, w>> at which int(0.0005 * h * w) is one below the exact floor
MinAreaRoundsLow == {<<145, 800>>, <<290, 400>>}

\* <<h, w>> at which 0.001 * h * w, exactly a multiple of one half, is
\* evaluated one ulp above it
RoiThresholdRoundsHigh == {<<35, 100>>, <<70, 50>>}

\* <<max_dim, longer side, side>> at which side * (max_dim / float(longer))
\* is evaluated just inside the exact integer, so int() is one nearer zero
ScaleRoundsShort == {<<2, 49, 49>>, <<-1, 49, 49>>}

-----------------------------------------------------------------------------
(* _estimate_min_area, resit.py lines 56-60 *)

AutoFloor == 50

estimate_min_area(h, w, c) ==
    IF c.min_area > 0 THEN c.min_area
    ELSE Max(AutoFloor, TruncDiv(5 * h * w, 10000)
                        - (IF <<h, w>> \in MinAreaRoundsLow THEN 1 ELSE 0))

(* validContours, resit.py lines 177-184.  cont is what contourArea and    *)
(* boundingRect report for the contour: [area2, bw, bh].                   *)
validContoursBad(cont, minArea) ==
    IF cont.area2 <= 2 * minArea THEN FALSE
    ELSE IF cont.bh = 0 \/ 5 * cont.bw > 2 * cont.bh THEN FALSE
    ELSE TRUE
validContours(cont, minArea) ==
    IF cont.area2 < 2 * minArea THEN FALSE
    ELSE IF cont.bh = 0 \/ 5 * cont.bw > 2 * cont.bh THEN FALSE
    ELSE TRUE

-----------------------------------------------------------------------------
(* _resistor_roi_mask, resit.py lines 89-122.  contours is the list         *)
(* findContours returns for the closed edge/threshold mask, each            *)
(* [area2, ww, hh].  A score is kept doubled and as a fraction [n, d].      *)

\* area < 0.001 * h * w
BelowRoiThreshold(c, h, w) ==
    \/ 500 * c.area2 < h * w
    \/ 500 * c.area2 = h * w /\ <<h, w>> \in RoiThresholdRoundsHigh

\* score = area * (ar if ar > 1.5 else 1.0)
Score(c) ==
    LET long == Max(c.ww, c.hh)
        short == Max(1, Min(c.ww, c.hh))
    IN  IF 2 * long > 3 * short
        THEN [n |-> c.area2 * long, d |-> short]
        ELSE [n |-> c.area2, d |-> 1]

ScoreGreater(a, b) == a.n * b.d > b.n * a.d

\* the loop over contours k..Len: best is an index, 0 for None
RECURSIVE RoiLoop(_, _, _, _, _, _)
RoiLoop(contours, k, h, w, best, best_score) ==
    IF k > Len(contours) THEN best
    ELSE IF BelowRoiThreshold(contours[k], h, w)
         THEN RoiLoop(contours, k + 1, h, w, best, best_score)
         ELSE IF ScoreGreater(Score(contours[k]), best_score)
              THEN RoiLoop(contours, k + 1, h, w, k, Score(contours[k]))
              ELSE RoiLoop(contours, k + 1, h, w, best, best_score)

FullMask == [full |-> TRUE, fill |-> 0]

resistor_roi_mask(contours, h, w) ==
    IF contours = <<>> THEN FullMask
    ELSE LET best == RoiLoop(contours, 1, h, w, 0, [n |-> -2, d |-> 1])
         IN  IF best # 0 THEN [full |-> FALSE, fill |-> best]
             ELSE FullMask

-----------------------------------------------------------------------------
(* Colour masks, resit.py lines 134 and 142-144 *)

\* cv.inRange on one HSV pixel
inRange(px, lo, hi) == \A c \in 1..3 : lo[c] <= px[c] /\ px[c] <= hi[c]

pre_red_mask(px) == inRange(px, Red_top_low, Red_top_high)

ColourMaskBad(px, clr) == pre_red_mask(px) \/ inRange(px, clr.lo, clr.hi)
ColourMask(px, clr) ==
    IF clr.name = "RED"
    THEN pre_red_mask(px) \/ inRange(px, clr.lo, clr.hi)
    ELSE inRange(px, clr.lo, clr.hi)

-----------------------------------------------------------------------------
(* Functions applied on their own: fn_in is the argument, fn_out the       *)
(* results so far; the call of findBands is idle.                          *)

IdlePipe ==
    /\ img = [h |-> 0, w |-> 0]
    /\ cfg = [max_dim |-> 0, min_area |-> 0, debug |-> FALSE]
    /\ scene = [blobs |-> <<>>, rois |-> <<>>]
    /\ pc = "idle"
    /\ proc = [h |-> 0, w |-> 0, resize |-> "none", raised |-> FALSE]
    /\ min_area = 0
    /\ roi_mask = FullMask
    /\ idx = 0
    /\ bandpos = <<>>
    /\ img1 = [drawn |-> <<>>, shown |-> FALSE]
    /\ bands = <<>>
    /\ response = [error |-> FALSE, bands |-> <<>>, value_ohms |-> <<>>]
    /\ call = 0
    /\ first = <<>>

(* ---- decoding a sorted band list ---- *)

\* a sorted list of bands with the given digits, one taxonomy entry per digit
BandsOfDigits(ds) == [k \in 1..Len(ds) |-> Band(k, 0, Colour_Range[ds[k] + 1])]

\* every list of 3, 4 or 5 bands, each digit 0-9
InitDecode ==
    /\ IdlePipe
    /\ \E n \in {3, 4, 5} : \E ds \in [1..n -> 0..9] : fn_in = BandsOfDigits(ds)
    /\ fn_out = <<>>

Decode ==
    /\ fn_out = <<>>
    /\ fn_out' = <<[value_ohms |-> ValueOhms(fn_in),
                    printed |-> displayResults(fn_in)]>>
    /\ UNCHANGED <<fn_in, pipeVars>>

SpecDecode == InitDecode /\ [][Decode]_vars

(* ---- the region validity filter ---- *)

MinAreaOptions == {-1, 0, 1, 3, 57}
AreaDims == {<<2, 3>>, <<300, 400>>, <<145, 800>>}
BoxSamples == {<<0, 0>>, <<3, 3>>, <<2, 5>>, <<2, 4>>, <<3, 7>>, <<3, 8>>,
               <<4, 10>>, <<4, 11>>, <<3, 40>>, <<40, 3>>, <<5, 31>>,
               <<12, 30>>, <<13, 31>>}
Area2Samples ==
    {0} \cup { 2 * m + d : m \in {1, 3, 50, 57, 60}, d \in {-2, -1, 0, 1, 2} }

\* a polygon on pixel centres inside a bw x bh box has area <= (bw-1)(bh-1);
\* an empty contour has area 0 and bounding box (0, 0, 0, 0)
ContourSamples ==
    { [area2 |-> a, bw |-> b[1], bh |-> b[2]] :
        <<a, b>> \in { ab \in Area2Samples \X BoxSamples :
                        /\ ab[1] <= 2 * Max(0, ab[2][1] - 1) * Max(0, ab[2][2] - 1) } }

InitValid ==
    /\ IdlePipe
    /\ fn_in \in { [cont |-> c, cfg |-> [min_area |-> m], h |-> d[1], w |-> d[2]] :
                   c \in ContourSamples, m \in MinAreaOptions, d \in AreaDims }
    /\ fn_out = <<>>

CallEstimateMinArea ==
    /\ Len(fn_out) = 0
    /\ fn_out' = <<estimate_min_area(fn_in.h, fn_in.w, fn_in.cfg)>>
    /\ UNCHANGED <<fn_in, pipeVars>>

CallValidContours ==
    /\ Len(fn_out) = 1
    /\ fn_out' = Append(fn_out, validContours(fn_in.cont, fn_out[1]))
    /\ UNCHANGED <<fn_in, pipeVars>>

SpecValid == InitValid /\ [][CallEstimateMinArea \/ CallValidContours]_vars

(* ---- the ROI extractor ---- *)

MaxRois == 2

RoiDims == {<<20, 25>>, <<35, 100>>, <<40, 50>>, <<30, 40>>}
RoiBoxSamples == {<<1, 1>>, <<2, 2>>, <<3, 5>>, <<5, 3>>, <<4, 4>>, <<2, 13>>}
RoiArea2Samples == {0, 1, 2, 4, 7, 8, 16}
RoiSamples ==
    { [area2 |-> ab[1], ww |-> ab[2][1], hh |-> ab[2][2]] :
        ab \in { q \in RoiArea2Samples \X RoiBoxSamples :
                  q[1] <= 2 * (q[2][1] - 1) * (q[2][2] - 1) } }

SeqsUpTo(S, n) == UNION { [1..k -> S] : k \in 0..n }

InitRoi ==
    /\ IdlePipe
    /\ fn_in \in { [contours |-> cs, h |-> d[1], w |-> d[2]] :
                   cs \in SeqsUpTo(RoiSamples, MaxRois), d \in RoiDims }
    /\ fn_out = <<>>

CallRoiMask ==
    /\ fn_out = <<>>
    /\ fn_out' = <<resistor_roi_mask(fn_in.contours, fn_in.h, fn_in.w)>>
    /\ UNCHANGED <<fn_in, pipeVars>>

SpecRoi == InitRoi /\ [][CallRoiMask]_vars

(* ---- the colour masks of one pixel ---- *)

HueSamples == 0..179
SatSamples == {0, 29, 30, 255}
ValSamples == {0, 79, 80, 200, 201, 255}

InitMask ==
    /\ IdlePipe
    /\ fn_in \in { <<hh, ss, vv>> : hh \in HueSamples, ss \in SatSamples, vv \in ValSamples }
    /\ fn_out = <<>>

\* one pass of the colour loop: the mask of Colour_Range[Len(fn_out) + 1]
MaskNextColour ==
    /\ Len(fn_out) < Len(Colour_Range)
    /\ fn_out' = Append(fn_out, ColourMask(fn_in, Colour_Range[Len(fn_out) + 1]))
    /\ UNCHANGED <<fn_in, pipeVars>>

SpecMask == InitMask /\ [][MaskNextColour]_vars

-----------------------------------------------------------------------------
(* One call of the analysis: findBands (resit.py lines 125-173) on the      *)
(* image, then the decoding of app.py analyze (lines 49-78).  The same      *)
(* image is then analysed a second time, with any debug flag.               *)

\* int(side * scale), scale = max_dim / float(longer)
ScaledSide(side, max_dim, longer) ==
    LET exact == TruncDiv(side * max_dim, longer)
    IN  IF <<max_dim, longer, side>> \in ScaleRoundsShort
        THEN (IF exact > 0 THEN exact - 1 ELSE exact + 1)
        ELSE exact

(* _preprocess, resit.py lines 63-86: the shape of the processed image.     *)
(* max_dim / float(0) raises ZeroDivisionError; cv.resize raises on an      *)
(* empty source or a target size with a side <= 0; the blur and cvtColor    *)
(* raise on an empty image.                                                 *)
preprocess(im, c) ==
    IF c.max_dim # 0 /\ Max(im.h, im.w) > c.max_dim
    THEN IF Max(im.h, im.w) = 0
         THEN [h |-> im.h, w |-> im.w, resize |-> "raised", raised |-> TRUE]
         ELSE LET nw == ScaledSide(im.w, c.max_dim, Max(im.h, im.w))
                  nh == ScaledSide(im.h, c.max_dim, Max(im.h, im.w))
              IN  IF im.h = 0 \/ im.w = 0 \/ nw <= 0 \/ nh <= 0
                  THEN [h |-> nh, w |-> nw, resize |-> "raised", raised |-> TRUE]
                  ELSE [h |-> nh, w |-> nw, resize |-> "done", raised |-> FALSE]
    ELSE IF im.h = 0 \/ im.w = 0
         THEN [h |-> im.h, w |-> im.w, resize |-> "none", raised |-> TRUE]
         ELSE [h |-> im.h, w |-> im.w, resize |-> "none", raised |-> FALSE]

\* a blob lies in the ROI mask: the mask is all white or the fill of the
\* contour the blob is within
InRoi(b, roi, rois) == roi.full \/ (roi.fill # 0 /\ rois[roi.fill].id = b.within)

\* the contours of the colour's mask: mask & thresh & roi_mask, lines 142-153
MaskContours(blobs, clr, roi, rois) ==
    SelectSeq(blobs, LAMBDA b : ColourMask(b.hsv, clr) /\ b.fg /\ InRoi(b, roi, rois))

\* lines 156-162: one band per valid contour, at its leftmost point
RECURSIVE CollectBands(_, _, _)
CollectBands(contours, clr, minArea) ==
    IF contours = <<>> THEN <<>>
    ELSE (IF validContours(Head(contours), minArea)
          THEN <<Band(Head(contours).x, Head(contours).y, clr)>>
          ELSE <<>>) \o CollectBands(Tail(contours), clr, minArea)

\* sorted(bandpos, key=lambda tup: tup[0]): stable, ascending x
RECURSIVE InsertByX(_, _)
InsertByX(s, b) ==
    IF s = <<>> THEN <<b>>
    ELSE IF Head(s).x <= b.x THEN <<Head(s)>> \o InsertByX(Tail(s), b)
         ELSE <<b>> \o s

RECURSIVE SortedInto(_, _)
SortedInto(acc, s) ==
    IF s = <<>> THEN acc ELSE SortedInto(InsertByX(acc, Head(s)), Tail(s))

not_sorted(s) == s
sorted_by_x(s) == SortedInto(<<>>, s)

Preprocess ==
    /\ pc = "preprocess"
    /\ proc' = preprocess(img, cfg)
    /\ min_area' = IF proc'.raised THEN 0 ELSE estimate_min_area(proc'.h, proc'.w, cfg)
    /\ pc' = IF proc'.raised THEN "raised" ELSE "roi"
    /\ UNCHANGED <<img, cfg, scene, roi_mask, idx, bandpos, img1, bands, response,
                   call, first, fn_in, fn_out>>

RoiMask ==
    /\ pc = "roi"
    /\ roi_mask' = resistor_roi_mask(scene.rois, proc.h, proc.w)
    /\ idx' = 1
    /\ pc' = "colours"
    /\ UNCHANGED <<img, cfg, scene, proc, min_area, bandpos, img1, bands, response,
                   call, first, fn_in, fn_out>>

\* one pass of `for clr in Colour_Range`, lines 141-165: the candidates
\* appended to bandpos and, under debug, the contours drawn on img1
loop_body_bad(bp, ov, clr, blobs, roi, rois, minArea, c) ==
    LET contours == MaskContours(blobs, clr, roi, rois)
    IN  IF c.debug
        THEN [bandpos |-> bp, img1 |-> [ov EXCEPT !.drawn = Append(@, <<clr.bgr, contours>>)]]
        ELSE [bandpos |-> bp \o CollectBands(contours, clr, minArea), img1 |-> ov]
loop_body(bp, ov, clr, blobs, roi, rois, minArea, c) ==
    LET contours == MaskContours(blobs, clr, roi, rois)
    IN  [bandpos |-> bp \o CollectBands(contours, clr, minArea),
         img1 |-> IF c.debug
                  THEN [ov EXCEPT !.drawn = Append(@, <<clr.bgr, contours>>)]
                  ELSE ov]

SegmentColour ==
    /\ pc = "colours"
    /\ idx <= Len(Colour_Range)
    /\ LET r == loop_body(bandpos, img1, Colour_Range[idx], scene.blobs, roi_mask,
                          scene.rois, min_area, cfg)
       IN  /\ bandpos' = r.bandpos
           /\ img1' = r.img1
    /\ idx' = idx + 1
    /\ UNCHANGED <<img, cfg, scene, pc, proc, min_area, roi_mask, bands, response,
                   call, first, fn_in, fn_out>>

\* lines 167-173: the debug windows, then the sorted list
ReturnBands ==
    /\ pc = "colours"
    /\ idx > Len(Colour_Range)
    /\ img1' = IF cfg.debug THEN [img1 EXCEPT !.shown = TRUE] ELSE img1
    /\ bands' = sorted_by_x(bandpos)
    /\ pc' = "decode"
    /\ UNCHANGED <<img, cfg, scene, proc, min_area, roi_mask, idx, bandpos, response,
                   call, first, fn_in, fn_out>>

\* app.py lines 58-78
Respond ==
    /\ pc = "decode"
    /\ response' = [error |-> FALSE, bands |-> BandList(bands),
                    value_ohms |-> ValueOhms(bands)]
    /\ pc' = "done"
    /\ UNCHANGED <<img, cfg, scene, proc, min_area, roi_mask, idx, bandpos, img1, bands,
                   call, first, fn_in, fn_out>>

\* app.py lines 55-56: any exception becomes an error response without bands
RespondError ==
    /\ pc = "raised"
    /\ response' = [error |-> TRUE, bands |-> <<>>, value_ohms |-> None]
    /\ pc' = "done"
    /\ UNCHANGED <<img, cfg, scene, proc, min_area, roi_mask, idx, bandpos, img1, bands,
                   call, first, fn_in, fn_out>>

NoOverlay == [drawn |-> <<>>, shown |-> FALSE]
NoResponse == [error |-> FALSE, bands |-> <<>>, value_ohms |-> None]
NotProcessed == [h |-> 0, w |-> 0, resize |-> "none", raised |-> FALSE]

\* the same image analysed again; nothing of the first call is kept by the code
CallAgain ==
    /\ pc = "done"
    /\ call = 1
    /\ first' = <<[debug |-> cfg.debug, response |-> response, bands |-> bands]>>
    /\ call' = 2
    /\ \E d \in BOOLEAN : cfg' = [cfg EXCEPT !.debug = d]
    /\ pc' = "preprocess"
    /\ proc' = NotProcessed
    /\ min_area' = 0
    /\ roi_mask' = FullMask
    /\ idx' = 0
    /\ bandpos' = <<>>
    /\ img1' = NoOverlay
    /\ bands' = <<>>
    /\ response' = NoResponse
    /\ UNCHANGED <<img, scene, fn_in, fn_out>>

Next ==
    \/ Preprocess
    \/ RoiMask
    \/ SegmentColour
    \/ ReturnBands
    \/ Respond
    \/ RespondError
    \/ CallAgain

-----------------------------------------------------------------------------
(* The images and configurations analysed *)

MaxBlobs == 3

ImageDims == {<<0, 0>>, <<1, 30>>, <<12, 30>>, <<25, 49>>, <<12, 16>>}
MaxDimOptions == {-1, 0, 2, 20}
PipeMinAreaOptions == {0, 12}

\* HSV pixels: RED by the second range only; BROWN and RED; BLACK;
\* YELLOW and GREEN
RedTop == <<170, 100, 100>>
BrownRed == <<5, 200, 90>>
Black == <<0, 0, 10>>
YellowGreen == <<60, 200, 200>>

Blob(hsv, box, pos, fg, within) ==
    [hsv |-> hsv, area2 |-> 24, bw |-> box[1], bh |-> box[2],
     x |-> pos[1], y |-> pos[2], fg |-> fg, within |-> within]

\* upright stripes on the resistor body, and three blobs that are filtered
\* out: a lying one, one in the background of the threshold, one off the body
BlobSamples ==
    { Blob(RedTop, <<3, 8>>, <<0, 1>>, TRUE, 1),
      Blob(BrownRed, <<3, 8>>, <<1, 0>>, TRUE, 1),
      Blob(Black, <<3, 8>>, <<1, 0>>, TRUE, 1),
      Blob(RedTop, <<3, 8>>, <<2, 2>>, TRUE, 1),
      Blob(YellowGreen, <<3, 8>>, <<2, 2>>, TRUE, 1),
      Blob(Black, <<8, 3>>, <<0, 1>>, TRUE, 1),
      Blob(BrownRed, <<3, 8>>, <<0, 1>>, FALSE, 1),
      Blob(Black, <<3, 8>>, <<2, 2>>, TRUE, 0) }

Body == [id |-> 1, area2 |-> 200, ww |-> 16, hh |-> 8]
Speck == [id |-> 2, area2 |-> 0, ww |-> 1, hh |-> 1]
RoiScenes == {<<>>, <<Body>>, <<Speck>>}

\* the region lies inside a processed image of p.h rows and p.w columns
BlobFits(b, p) == b.x + b.bw <= p.w /\ b.y + b.bh <= p.h
RoiFits(r, p) == r.ww <= p.w /\ r.hh <= p.h

\* longer blob lists are analysed under one configuration only
ManyBlobs(d, c) == d = <<12, 30>> /\ c.max_dim = 0 /\ c.min_area = 12

Init ==
    /\ \E d \in ImageDims, m \in MaxDimOptions, a \in PipeMinAreaOptions, dbg \in BOOLEAN :
        LET c == [max_dim |-> m, min_area |-> a, debug |-> dbg]
            im == [h |-> d[1], w |-> d[2]]
            p == preprocess(im, c)
        IN  /\ img = im
            /\ cfg = c
            /\ IF p.raised
               THEN scene = [blobs |-> <<>>, rois |-> <<>>]
               ELSE \E n \in 0..(IF ManyBlobs(d, c) THEN MaxBlobs ELSE 1) :
                    \E bs \in [1..n -> BlobSamples], rs \in RoiScenes :
                        /\ \A k \in 1..n : BlobFits(bs[k], p)
                        /\ \A k \in 1..Len(rs) : RoiFits(rs[k], p)
                        /\ scene = [blobs |-> bs, rois |-> rs]
    /\ pc = "preprocess"
    /\ proc = NotProcessed
    /\ min_area = 0
    /\ roi_mask = FullMask
    /\ idx = 0
    /\ bandpos = <<>>
    /\ img1 = NoOverlay
    /\ bands = <<>>
    /\ response = NoResponse
    /\ call = 1
    /\ first = <<>>
    /\ fn_in = <<>>
    /\ fn_out = <<>>

Spec == Init /\ [][Next]_vars

-----------------------------------------------------------------------------
(* Properties *)

\* the bands' digits read as one decimal number, first band most significant
RECURSIVE DecimalValue(_, _)
DecimalValue(bs, n) ==
    IF n = 0 THEN 0 ELSE 10 * DecimalValue(bs, n - 1) + bs[n].digit

\* v = [hi, lo] is base * 10^e  (base < 10^4, e <= 9)
IsProduct(v, base, e) ==
    /\ v.lo \in 0..(Limb - 1)
    /\ IF e >= 5
       THEN v.lo = 0 /\ v.hi = base * Pow10(e - 5)
       ELSE v.hi * Limb + v.lo = base * Pow10(e)

(* C1: for 3, 4 or 5 bands with any digits 0-9 the decoded resistance, as    *)
(* returned by analyze and as printed by displayResults, is base * 10^(digit *)
(* of the last band), base being the digits of the other bands read as a     *)
(* decimal number, leftmost band most significant.                           *)
C1_Decoding ==
    fn_out # <<>> =>
        LET n == Len(fn_in)
            r == fn_out[1]
        IN  /\ r.value_ohms # None
            /\ IsProduct(r.value_ohms[1], DecimalValue(fn_in, n - 1), fn_in[n].digit)
            /\ r.printed = r.value_ohms

\* RED, RED, BLACK, ORANGE decoded to 220000
C1_Witness ==
    /\ fn_out # <<>>
    /\ Len(fn_in) = 4
    /\ <<fn_in[1].name, fn_in[2].name, fn_in[3].name, fn_in[4].name>>
         = <<"RED", "RED", "BLACK", "ORANGE">>
    /\ fn_out[1].value_ohms = Some([hi |-> 2, lo |-> 20000])

Count(b, s) == Cardinality({k \in 1..Len(s) : s[k] = b})

Returned == pc \in {"decode", "done"} /\ ~proc.raised

(* C2: the list findBands returns is a permutation of the candidates it      *)
(* collected, in non-decreasing order of x.                                  *)
C2_SortedPermutation ==
    Returned =>
        /\ Len(bands) = Len(bandpos)
        /\ \A k \in 1..Len(bandpos) : Count(bandpos[k], bands) = Count(bandpos[k], bandpos)
        /\ \A k \in 1..(Len(bands) - 1) : bands[k].x <= bands[k + 1].x

\* at least three candidates, detected out of x order and two at the same x
C2_Witness ==
    /\ Returned
    /\ Len(bandpos) >= 3
    /\ \E k \in 1..(Len(bandpos) - 1) : bandpos[k].x > bandpos[k + 1].x
    /\ \E j, k \in 1..Len(bands) : j # k /\ bands[j].x = bands[k].x

(* C3: when findBands returns a number of bands other than 3, 4 or 5, the    *)
(* analysis answers without error, with every band in order (x, y, colour,   *)
(* digit) and no resistance value.                                           *)
C3_NonStandardCount ==
    (pc = "done" /\ ~proc.raised /\ Len(bands) \notin {3, 4, 5}) =>
        /\ ~response.error
        /\ response.value_ohms = None
        /\ Len(response.bands) = Len(bands)
        /\ \A k \in 1..Len(bands) :
            /\ response.bands[k].x = bands[k].x
            /\ response.bands[k].y = bands[k].y
            /\ response.bands[k].color = bands[k].name
            /\ response.bands[k].digit = bands[k].digit

\* six bands answered
C3_Witness ==
    /\ pc = "done"
    /\ Len(bands) = 6
    /\ Len(response.bands) = 6
    /\ response.value_ohms = None

(* C4: the call fails exactly when the pixel buffer is empty (zero height or *)
(* zero width); it then returns no band list.                                *)
C4_OnlyEmptyImageFails ==
    pc = "done" =>
        /\ response.error <=> (img.h = 0 \/ img.w = 0)
        /\ response.error => response.bands = <<>>

(* C5: every band findBands returns carries the name and the digit of one    *)
(* entry of the ten-entry taxonomy, whose digits 0-9 occur once each.        *)
C5_TaxonomyEntry ==
    /\ Len(Colour_Range) = 10
    /\ \A d \in 0..9 : Cardinality({k \in 1..10 : Colour_Range[k].digit = d}) = 1
    /\ Returned =>
        \A j \in 1..Len(bands) :
            /\ bands[j].digit \in 0..9
            /\ \E k \in 1..10 : /\ Colour_Range[k].name = bands[j].name
                               /\ Colour_Range[k].digit = bands[j].digit
            /\ \A k \in 1..10 : Colour_Range[k].name = bands[j].name
                                   => Colour_Range[k].digit = bands[j].digit

\* bands of four different colours returned
C5_Witness ==
    /\ Returned
    /\ Cardinality({bands[j].name : j \in 1..Len(bands)}) >= 4

C7_RoiMask ==
    fn_out # <<>> =>
        LET cs == fn_in.contours
            qual == {k \in 1..Len(cs) : 500 * cs[k].area2 >= fn_in.h * fn_in.w}
            r == fn_out[1]
        IN  IF qual = {}
            THEN r.full
            ELSE /\ ~r.full
                 /\ r.fill \in qual
                 /\ \A j \in qual : ~ScoreGreater(Score(cs[j]), Score(cs[r.fill]))

(* C8: the image is resized exactly when max_dim > 0 and its longer side     *)
(* exceeds max_dim, and then its longer side becomes max_dim; otherwise no   *)
(* resize is attempted and its dimensions are unchanged.                     *)
C8_Resize ==
    pc \notin {"preprocess", "idle"} =>
        IF cfg.max_dim > 0 /\ Max(img.h, img.w) > cfg.max_dim
        THEN proc.resize = "done" /\ Max(proc.h, proc.w) = cfg.max_dim
        ELSE proc.resize = "none" /\ proc.h = img.h /\ proc.w = img.w

InSecondRed(px) ==
    /\ px[1] \in 160..179
    /\ px[2] \in 30..255
    /\ px[3] \in 80..200

InOwnRange(px, k) ==
    \A c \in 1..3 : px[c] \in Colour_Range[k].lo[c]..Colour_Range[k].hi[c]

(* C9 as stated: a pixel whose hue is in 160-179 (and so outside 0-10) is in *)
(* the RED mask.                                                             *)
C9_HueAlone ==
    (Len(fn_out) >= 3 /\ fn_in[1] \in 160..179 /\ fn_in[1] \notin 0..10) => fn_out[3]

(* C9 amended: a pixel inside the second red range on all three channels     *)
(* (hue 160-179, saturation 30-255, value 80-200) is in the RED mask; the    *)
(* RED mask is the union of its own range and the second range; every other  *)
(* entry's mask is its own range alone.                                      *)
C9_RedUnion ==
    \A k \in 1..Len(fn_out) :
        /\ Colour_Range[k].name = "RED" =>
            /\ InSecondRed(fn_in) => fn_out[k]
            /\ fn_out[k] <=> (InOwnRange(fn_in, k) \/ InSecondRed(fn_in))
        /\ Colour_Range[k].name # "RED" => (fn_out[k] <=> InOwnRange(fn_in, k))

\* a pixel of the second range only, in the RED mask and in no other
C9_Witness ==
    /\ Len(fn_out) = 10
    /\ fn_in = <<179, 255, 200>>
    /\ ~InOwnRange(fn_in, 3)
    /\ \A k \in 1..10 : fn_out[k] <=> (k = 3)

(* C10: a second analysis of the same image under the same options, with     *)
(* any debug flag, returns the same bands and the same resistance.           *)
C10_SameResult ==
    (pc = "done" /\ call = 2) =>
        /\ response = first[1].response
        /\ bands = first[1].bands

\* three or more bands, decoded, once without and once with debug
C10_Witness ==
    /\ pc = "done"
    /\ call = 2
    /\ cfg.debug # first[1].debug
    /\ Len(response.bands) >= 3
    /\ response.value_ohms # None

=============================================================================
